---- MODULE Spec2Model ----
(***************************************************************************)
(* Model of echocrow/fsnap: the packages dirsnap (type Dirs, a nested     *)
(* snapshot of directory entries) and filesnap (type Files, a flat        *)
(* snapshot of file contents), their Write methods and their ReadFS       *)
(* scanners, over a small POSIX-like filesystem.                          *)
(*                                                                         *)
(* A path is the sequence of its slash-separated segments; the directory   *)
(* handed to Write and Read is the empty sequence.  What exists in the     *)
(* filesystem has entry names for segments; the key of a Files snapshot    *)
(* may also have the segment ".", which path.Join cleans away.  The keys   *)
(* of a Dirs snapshot are entry names.                                     *)
(***************************************************************************)
EXTENDS Integers, Sequences, FiniteSets, TLC

\* ------------------------------------------------------------------ bounds

\* Largest number of entries (all levels together) of a Dirs snapshot, and
\* largest number of path segments (all keys together) of a Files snapshot.
MaxEntries == 3

\* Largest number of files and directories below the target directory before
\* the first Write of a write scenario.
MaxPre == 2

\* Largest number of files and directories below the scanned directory in a
\* scan scenario.
MaxNodes == 4

\* Entry names, and the order in which a directory listing returns them.
NameOrder == <<"a", "b">>

Names == {NameOrder[i] : i \in 1..Len(NameOrder)}

\* The segments of the keys of a Files snapshot.
Segs == Names \cup {"."}

\* File contents a snapshot may carry ("" is the empty byte sequence).
Contents == {"", "n"}

\* Contents of the files that exist before the first Write.
OldContents == {"o"}

\* Scan depths handed to ReadFS.
Depths == {-1, 0, 1, 2}

\* ------------------------------------------------------------- filesystem

\* The filesystem is a function from the paths that exist to their nodes.
DirNode == [dir |-> TRUE, data |-> ""]

FileNode(data) == [dir |-> FALSE, data |-> data]

Put(fs, p, node) == [q \in DOMAIN fs \cup {p} |-> IF q = p THEN node ELSE fs[q]]

IsDir(fs, p) == p \in DOMAIN fs /\ fs[p].dir

IsFile(fs, p) == p \in DOMAIN fs /\ ~fs[p].dir

Prefixes(p) == {SubSeq(p, 1, i) : i \in 0..Len(p)}

ProperPrefixes(p) == {SubSeq(p, 1, i) : i \in 0..(Len(p) - 1)}

\* path.Clean: the segments "." are dropped.
Clean(p) == LET keep(x) == x # "." IN SelectSeq(p, keep)

\* path.Join: the segments of both, cleaned.
Join(dir, n) == Clean(dir \o n)

\* path.Dir of a path with at least one segment: all but the last segment.
Dir(p) == SubSeq(p, 1, Len(p) - 1)

\* The error of resolving the directory that holds p; the directory that
\* holds the target directory exists.
LookupErr(fs, p) ==
  IF p = <<>> THEN "nil"
  ELSE IF \E q \in ProperPrefixes(p) : IsFile(fs, q) THEN "ENOTDIR"
  ELSE IF Dir(p) \notin DOMAIN fs THEN "ENOENT"
  ELSE "nil"

\* os.WriteFile: create or truncate the file p and write data.
WriteFile(fs, p, data) ==
  IF LookupErr(fs, p) # "nil" THEN [fs |-> fs, err |-> LookupErr(fs, p)]
  ELSE IF IsDir(fs, p) THEN [fs |-> fs, err |-> "EISDIR"]
  ELSE [fs |-> Put(fs, p, FileNode(data)), err |-> "nil"]

\* os.Mkdir: create the single directory p.
Mkdir(fs, p) ==
  IF LookupErr(fs, p) # "nil" THEN [fs |-> fs, err |-> LookupErr(fs, p)]
  ELSE IF p \in DOMAIN fs THEN [fs |-> fs, err |-> "EEXIST"]
  ELSE [fs |-> Put(fs, p, DirNode), err |-> "nil"]

\* os.MkdirAll: create p and every missing ancestor; existing directories
\* are kept, an existing file on the way is an error and nothing is created.
MkdirAll(fs, p) ==
  IF \E q \in Prefixes(p) : IsFile(fs, q) THEN [fs |-> fs, err |-> "ENOTDIR"]
  ELSE [fs |-> [q \in DOMAIN fs \cup Prefixes(p) |->
                  IF q \in DOMAIN fs THEN fs[q] ELSE DirNode],
        err |-> "nil"]

\* os.Stat: whether p exists, and whether it is a directory.
Stat(fs, p) ==
  IF p \in DOMAIN fs THEN [err |-> "nil", isDir |-> fs[p].dir]
  ELSE [err |-> IF \E q \in ProperPrefixes(p) : IsFile(fs, q)
                THEN "ENOTDIR" ELSE "ENOENT",
        isDir |-> FALSE]

\* os.IsExist
IsExist(err) == err = "EEXIST"

\* os.IsNotExist
IsNotExist(err) == err = "ENOENT"

\* ------------------------------------------------------------ type Dirs

\* The nil Dirs: a file.
Nil == [nil |-> TRUE]

\* Dirs{}: a map with no entry.
EmptyDirs == [x \in {} |-> Nil]

\* t[en] = v
SetEntry(t, en, v) == [x \in DOMAIN t \cup {en} |-> IF x = en THEN v ELSE t[x]]

\* Number of entries of a Dirs value, all levels together.
RECURSIVE CountEntries(_)
CountEntries(t) ==
  IF t = Nil \/ DOMAIN t = {} THEN 0
  ELSE LET n == CHOOSE x \in DOMAIN t : TRUE
           rest == [x \in DOMAIN t \ {n} |-> t[x]]
       IN 1 + CountEntries(t[n]) + CountEntries(rest)

\* The Dirs values (other than nil) of at most m entries.
RECURSIVE DirsUpTo(_)
DirsUpTo(m) ==
  IF m = 0 THEN {EmptyDirs}
  ELSE {t \in UNION {[D -> {Nil} \cup DirsUpTo(m - 1)] : D \in SUBSET Names} :
          CountEntries(t) <= m}

\* ----------------------------------------------------------- type Files

\* The relative paths of at most m segments (at least one) out of S.
RECURSIVE PathsUpTo(_, _)
PathsUpTo(m, S) ==
  IF m = 0 THEN {}
  ELSE {<<n>> : n \in S}
       \cup {k \o <<n>> : k \in PathsUpTo(m - 1, S), n \in S}

\* The keys of at most m segments: each names a path below the directory.
KeysUpTo(m) == {k \in PathsUpTo(m, Segs) : Clean(k) # <<>>}

RECURSIVE SumLen(_)
SumLen(ks) ==
  IF ks = {} THEN 0
  ELSE LET k == CHOOSE x \in ks : TRUE IN Len(k) + SumLen(ks \ {k})

\* The key sets of at most m segments in total.
RECURSIVE KeySetsUpTo(_)
KeySetsUpTo(m) ==
  IF m = 0 THEN {{}}
  ELSE KeySetsUpTo(m - 1)
       \cup {ks \cup {k} : ks \in KeySetsUpTo(m - 1), k \in KeysUpTo(m)}

\* Files{}: a map with no key.
EmptyFiles == [k \in {} |-> ""]

\* f[sp] = data
SetKey(acc, sp, data) ==
  [k \in DOMAIN acc \cup {sp} |-> IF k = sp THEN data ELSE acc[k]]

FilesUpTo(m) ==
  UNION {[ks -> Contents] : ks \in {x \in KeySetsUpTo(m) : SumLen(x) <= m}}

\* ------------------------------------------------- filesystems to start in

\* The filesystems whose target directory exists and holds at most m nodes.
RECURSIVE FsUpTo(_, _)
FsUpTo(m, datas) ==
  IF m = 0 THEN {[p \in {<<>>} |-> DirNode]}
  ELSE LET prev == FsUpTo(m - 1, datas)
           nodes == {DirNode} \cup {FileNode(c) : c \in datas}
           free(fs) == {x \in (DOMAIN fs) \X Names :
                          /\ IsDir(fs, x[1])
                          /\ Join(x[1], <<x[2]>>) \notin DOMAIN fs}
       IN prev \cup UNION {UNION {{Put(fs, Join(x[1], <<x[2]>>), node) :
                                     node \in nodes} : x \in free(fs)} :
                            fs \in prev}

WellFormed(fs) ==
  \A p \in DOMAIN fs : p # <<>> => IsDir(fs, Dir(p))

\* No target directory at all, or a file in its place.
NoRootFs == {[p \in {} |-> DirNode]} \cup {[p \in {<<>>} |-> FileNode(c)] : c \in OldContents}

\* ------------------------------------------------------------------ state

VARIABLES
  pkg,      \* "dirsnap" or "filesnap": the package the scenario exercises
  d,        \* the Dirs snapshot that is written
  f,        \* the Files snapshot that is written
  fs,       \* the filesystem
  denied,   \* the paths whose listing or reading fails (EACCES)
  eofd,     \* the directories whose listing ends with io.EOF and no entry
  pc,       \* "ready", "writing", "written" or "scanned"
  stack,    \* Dirs.Write: the frames of the recursion, innermost last
  todo,     \* Files.Write: the keys the range loop has not visited
  cur,      \* Files.Write: the key between its MkdirAll and its WriteFile
  err,      \* the error the last Write returned ("nil": none)
  calls,    \* the number of Write calls that have returned
  fs0,      \* the filesystem before the first Write
  fs1,      \* the filesystem when the first Write returned
  last,     \* the last entry a Write handled, what was there, what happened
  got       \* what the scan returned: snapshot, error and depth

vars == <<pkg, d, f, fs, denied, eofd, pc, stack, todo, cur, err, calls,
          fs0, fs1, last, got>>

\* last: the entry's path p, the type it wants, what was at p before (pre),
\* the ancestor of p that was a file before (anc: <<q>>, or <<>> for none),
\* the contents to write, the step ("create", "mkdirall",
\* "writefile"), the error the filesystem gave the step (raw) and the error
\* the step ended the Write with (err; "nil": the Write went on).
NoLast == [p |-> <<>>, want |-> "none", pre |-> "none", anc |-> <<>>,
           data |-> "", step |-> "none", raw |-> "nil", err |-> "nil"]

NoGot == [t |-> Nil, f |-> EmptyFiles, err |-> "nil", n |-> 0]

\* What is at p: "dir", "file" or "none".
KindAt(fsx, p) ==
  IF p \notin DOMAIN fsx THEN "none" ELSE IF fsx[p].dir THEN "dir" ELSE "file"

\* ------------------------------------------------------------- Dirs.Write

\* Mutants of isWriteErrOk: no error but nil is fine; an existing name is
\* fine whatever its type; every error is fine.
isWriteErrOkStrict(fsx, e, name, wantDir) == e = "nil"

isWriteErrOkAnyType(fsx, e, name, wantDir) == e = "nil" \/ IsExist(e)

isWriteErrOkIgnore(fsx, e, name, wantDir) == TRUE

\* Dirs.isWriteErrOk: an error of creation is fine when it says that the
\* name exists and what exists is of the wanted type.
isWriteErrOk(fsx, e, name, wantDir) ==
  IF ~IsExist(e) THEN e = "nil"
  ELSE LET st == Stat(fsx, name)
       IN st.err = "nil" /\ st.isDir = wantDir

\* Mutant of writeEmptyFile: a file that exists is left as it is.
writeEmptyFileKeep(fsx, name) ==
  IF IsFile(fsx, name) THEN [fs |-> fsx, err |-> "nil"]
  ELSE WriteFile(fsx, name, "")

\* writeEmptyFile
writeEmptyFile(fsx, name) == WriteFile(fsx, name, "")

\* Mutant of DirsWriteEntry: a Dirs without entries is taken for a file.
DirsWriteEntryEmptyAsFile(fsx, name, st) ==
  IF st = Nil \/ DOMAIN st = {}
  THEN LET r == writeEmptyFile(fsx, name)
       IN [fs |-> r.fs, raw |-> r.err,
           err |-> IF isWriteErrOk(r.fs, r.err, name, FALSE) THEN "nil" ELSE r.err]
  ELSE LET r == Mkdir(fsx, name)
       IN [fs |-> r.fs, raw |-> r.err,
           err |-> IF isWriteErrOk(r.fs, r.err, name, TRUE) THEN "nil" ELSE r.err]

\* One entry of the range loop of Dirs.Write, up to the recursive call: the
\* creation, its error (raw) and the error returned for it ("nil": go on).
DirsWriteEntry(fsx, name, st) ==
  IF st = Nil
  THEN LET r == writeEmptyFile(fsx, name)
       IN [fs |-> r.fs, raw |-> r.err,
           err |-> IF isWriteErrOk(r.fs, r.err, name, FALSE) THEN "nil" ELSE r.err]
  ELSE LET r == Mkdir(fsx, name)
       IN [fs |-> r.fs, raw |-> r.err,
           err |-> IF isWriteErrOk(r.fs, r.err, name, TRUE) THEN "nil" ELSE r.err]

\* Write returns e: the call is over.
Return(e) ==
  /\ pc' = "written"
  /\ err' = e
  /\ calls' = calls + 1
  /\ stack' = <<>>
  /\ todo' = {}
  /\ cur' = <<>>
  /\ fs1' = IF calls = 0 THEN fs' ELSE fs1

\* A Write may be called on the filesystem as it is found, and once more
\* right after a first Write that returned no error.
MayCallWrite ==
  \/ pc = "ready"
  \/ pc = "written" /\ calls = 1 /\ err = "nil"

\* d.Write(dir) is called: the range loop over d starts.
DirsWriteCall ==
  /\ pkg = "dirsnap"
  /\ MayCallWrite
  /\ pc' = "writing"
  /\ stack' = <<[dir |-> <<>>, d |-> d, todo |-> DOMAIN d]>>
  /\ last' = NoLast
  /\ UNCHANGED <<pkg, d, f, fs, denied, eofd, todo, cur, err, calls, fs0, fs1, got>>

\* The range loop of the innermost Dirs.Write takes an entry, in any order:
\* it creates the file or the directory, returns the error from every
\* enclosing Write if it is not fine, and else goes on, calling st.Write for
\* a directory.
DirsWriteLoop ==
  /\ pkg = "dirsnap"
  /\ pc = "writing"
  /\ stack # <<>>
  /\ LET top == stack[Len(stack)]
     IN \E n \in top.todo :
          LET name == Join(top.dir, <<n>>)
              st == top.d[n]
              r == DirsWriteEntry(fs, name, st)
              rest == [top EXCEPT !.todo = top.todo \ {n}]
              below == SubSeq(stack, 1, Len(stack) - 1)
          IN /\ fs' = r.fs
             /\ last' = [p |-> name,
                         want |-> IF st = Nil THEN "file" ELSE "dir",
                         pre |-> KindAt(fs, name), anc |-> <<>>, data |-> "",
                         step |-> "create", raw |-> r.raw, err |-> r.err]
             /\ IF r.err # "nil"
                THEN Return(r.err)
                ELSE /\ stack' = IF st = Nil
                                 THEN below \o <<rest>>
                                 ELSE below \o <<rest, [dir |-> name, d |-> st,
                                                        todo |-> DOMAIN st]>>
                     /\ UNCHANGED <<pc, err, calls, todo, cur, fs1>>
  /\ UNCHANGED <<pkg, d, f, denied, eofd, fs0, got>>

\* The range loop of the innermost Dirs.Write is over: it returns nil, to
\* the enclosing Write or to the caller.
DirsWriteReturn ==
  /\ pkg = "dirsnap"
  /\ pc = "writing"
  /\ stack # <<>>
  /\ stack[Len(stack)].todo = {}
  /\ fs' = fs
  /\ IF Len(stack) = 1
     THEN Return("nil")
     ELSE /\ stack' = SubSeq(stack, 1, Len(stack) - 1)
          /\ UNCHANGED <<pc, err, calls, todo, cur, fs1>>
  /\ UNCHANGED <<pkg, d, f, denied, eofd, fs0, last, got>>

\* ------------------------------------------------------------ Files.Write

\* f.Write(dir) is called: the range loop over f starts.
FilesWriteCall ==
  /\ pkg = "filesnap"
  /\ MayCallWrite
  /\ pc' = "writing"
  /\ todo' = DOMAIN f
  /\ cur' = <<>>
  /\ last' = NoLast
  /\ UNCHANGED <<pkg, d, f, fs, denied, eofd, stack, err, calls, fs0, fs1, got>>

\* The proper ancestor of p that is a file, if one is: <<q>>, or <<>>.
FileAncestor(fsx, p) ==
  IF \E q \in ProperPrefixes(p) : IsFile(fsx, q)
  THEN <<CHOOSE q \in ProperPrefixes(p) : IsFile(fsx, q)>>
  ELSE <<>>

\* Mutant of FilesMkdirAll: os.Mkdir, a single directory, is used.
FilesMkdirOne(fsx, dir, n) ==
  IF Len(Join(dir, n)) <= 1 THEN [fs |-> fsx, err |-> "nil"]
  ELSE LET r == Mkdir(fsx, Dir(Join(dir, n)))
       IN IF IsExist(r.err) THEN [fs |-> fsx, err |-> "nil"] ELSE r

\* The directories Files.Write makes for key n: os.MkdirAll(path.Dir(p)).
\* When p is the target directory itself, path.Dir(p) is the directory that
\* holds it, which exists.
FilesMkdirAll(fsx, dir, n) ==
  IF Join(dir, n) = <<>> THEN [fs |-> fsx, err |-> "nil"]
  ELSE MkdirAll(fsx, Dir(Join(dir, n)))

\* Mutant of FilesWriteFileAt: a file that exists is left as it is.
FilesWriteFileAtKeep(fsx, dir, n, data) ==
  IF IsFile(fsx, Join(dir, n)) THEN [fs |-> fsx, err |-> "nil"]
  ELSE WriteFile(fsx, Join(dir, n), data)

\* The file Files.Write writes for key n: os.WriteFile(p, data).
FilesWriteFileAt(fsx, dir, n, data) == WriteFile(fsx, Join(dir, n), data)

\* The range loop of Files.Write takes a key, in any order, and makes the
\* directories down to the one that holds the file.
FilesWriteMkdirAll ==
  /\ pkg = "filesnap"
  /\ pc = "writing"
  /\ cur = <<>>
  /\ \E n \in todo :
       LET p == Join(<<>>, n)
           r == FilesMkdirAll(fs, <<>>, n)
       IN /\ fs' = r.fs
          /\ last' = [p |-> p, want |-> "file", pre |-> KindAt(fs, p),
                      anc |-> FileAncestor(fs, p), data |-> f[n],
                      step |-> "mkdirall", raw |-> r.err, err |-> r.err]
          /\ IF r.err # "nil"
             THEN Return(r.err)
             ELSE /\ cur' = <<n>>
                  /\ UNCHANGED <<pc, err, calls, stack, todo, fs1>>
  /\ UNCHANGED <<pkg, d, f, denied, eofd, fs0, got>>

\* Files.Write writes the contents of the key it made the directories for.
FilesWriteFile ==
  /\ pkg = "filesnap"
  /\ pc = "writing"
  /\ cur # <<>>
  /\ LET n == cur[1]
         p == Join(<<>>, n)
         r == FilesWriteFileAt(fs, <<>>, n, f[n])
     IN /\ fs' = r.fs
        /\ last' = [last EXCEPT !.step = "writefile", !.raw = r.err,
                                !.err = r.err]
        /\ IF r.err # "nil"
           THEN Return(r.err)
           ELSE /\ todo' = todo \ {n}
                /\ cur' = <<>>
                /\ UNCHANGED <<pc, err, calls, stack, fs1>>
  /\ UNCHANGED <<pkg, d, f, denied, eofd, fs0, got>>

\* The range loop of Files.Write is over: it returns nil.
FilesWriteReturn ==
  /\ pkg = "filesnap"
  /\ pc = "writing"
  /\ cur = <<>>
  /\ todo = {}
  /\ fs' = fs
  /\ Return("nil")
  /\ UNCHANGED <<pkg, d, f, denied, eofd, fs0, last, got>>

\* ------------------------------------------------------------------ scans

\* The filesystem as ReadFS sees it: what exists, and what fails to be read.
Fsys == [fs |-> fs, denied |-> denied, eofd |-> eofd]

\* fs.ReadDir: the entries of dir sorted by name, each with its name and
\* whether it is a directory; or an error and no entry.
ReadDir(fsys, dir) ==
  IF dir \notin DOMAIN fsys.fs
  THEN [entries |-> <<>>, err |-> Stat(fsys.fs, dir).err]
  ELSE IF ~fsys.fs[dir].dir THEN [entries |-> <<>>, err |-> "ENOTDIR"]
  ELSE IF dir \in fsys.denied THEN [entries |-> <<>>, err |-> "EACCES"]
  ELSE IF dir \in fsys.eofd THEN [entries |-> <<>>, err |-> "EOF"]
  ELSE LET in(n) == Join(dir, <<n>>) \in DOMAIN fsys.fs
           names == SelectSeq(NameOrder, in)
       IN [entries |-> [i \in 1..Len(names) |->
                          [name |-> names[i],
                           isDir |-> fsys.fs[Join(dir, <<names[i]>>)].dir]],
           err |-> "nil"]

\* fs.ReadFile of an existing file: its contents, or an error and none.
ReadFile(fsys, p) ==
  IF p \in fsys.denied THEN [data |-> "", err |-> "EACCES"]
  ELSE [data |-> fsys.fs[p].data, err |-> "nil"]

\* Mutant of EndsScan: io.EOF ends the scan like any error.
EndsScanOnEOF(e) == e # "nil"

\* Whether the error of a listing or of a file read ends the scan: any error
\* but io.EOF does.
EndsScan(e) == e # "nil" /\ e # "EOF"

\* Mutant of DirsEntryCase: a negative depth is taken for depth 0.
DirsEntryCaseNoNegative(isDir, n) ==
  IF ~isDir THEN "file" ELSE IF n <= 0 THEN "empty" ELSE "recurse"

\* What dirsnap.ReadFS does with an entry at remaining depth n: a file is
\* marked, a directory is left empty at depth 0 and scanned otherwise.
DirsEntryCase(isDir, n) ==
  IF ~isDir THEN "file" ELSE IF n = 0 THEN "empty" ELSE "recurse"

\* Mutant of FilesEntryCase: a negative depth is taken for depth 0.
FilesEntryCaseNoNegative(isDir, n) ==
  IF ~isDir THEN "read" ELSE IF n > 0 THEN "recurse" ELSE "skip"

\* What Files.readFS does with an entry at remaining depth n: a file is
\* read, a directory is scanned unless the depth is 0.
FilesEntryCase(isDir, n) ==
  IF ~isDir THEN "read" ELSE IF n # 0 THEN "recurse" ELSE "skip"

\* dirsnap.ReadFS(fsys, dir, n): the Dirs tree and the error.  ReadFSLoop is
\* its range loop over the entries, at entry i with the tree t so far.
RECURSIVE ReadFS(_, _, _), ReadFSLoop(_, _, _, _, _, _)
ReadFS(fsys, dir, n) ==
  LET r == ReadDir(fsys, dir)
  IN IF EndsScan(r.err)
     THEN [t |-> Nil, err |-> r.err]
     ELSE ReadFSLoop(fsys, dir, n, r.entries, 1, EmptyDirs)

ReadFSLoop(fsys, dir, n, entries, i, t) ==
  IF i > Len(entries) THEN [t |-> t, err |-> "nil"]
  ELSE LET en == entries[i].name
           case == DirsEntryCase(entries[i].isDir, n)
       IN IF case = "file"
          THEN ReadFSLoop(fsys, dir, n, entries, i + 1, SetEntry(t, en, Nil))
          ELSE IF case = "empty"
          THEN ReadFSLoop(fsys, dir, n, entries, i + 1, SetEntry(t, en, EmptyDirs))
          ELSE LET sub == ReadFS(fsys, Join(dir, <<en>>), n - 1)
               IN IF sub.err # "nil"
                  THEN [t |-> SetEntry(t, en, sub.t), err |-> sub.err]
                  ELSE ReadFSLoop(fsys, dir, n, entries, i + 1,
                                  SetEntry(t, en, sub.t))

\* Files.readFS(fsys, rootDir, subDir, n) on the map acc: the map and the
\* error.  readFSLoop is its range loop over the entries, at entry i.
RECURSIVE readFS(_, _, _, _, _), readFSLoop(_, _, _, _, _, _, _)
readFS(fsys, acc, rootDir, subDir, n) ==
  LET r == ReadDir(fsys, Join(rootDir, subDir))
  IN IF EndsScan(r.err)
     THEN [f |-> acc, err |-> r.err]
     ELSE readFSLoop(fsys, acc, rootDir, subDir, n, r.entries, 1)

readFSLoop(fsys, acc, rootDir, subDir, n, entries, i) ==
  IF i > Len(entries) THEN [f |-> acc, err |-> "nil"]
  ELSE LET p == Join(Join(rootDir, subDir), <<entries[i].name>>)
           sp == Join(subDir, <<entries[i].name>>)
           case == FilesEntryCase(entries[i].isDir, n)
       IN IF case = "read"
          THEN LET rf == ReadFile(fsys, p)
                   acc2 == SetKey(acc, sp, rf.data)
               IN IF EndsScan(rf.err)
                  THEN [f |-> acc2, err |-> rf.err]
                  ELSE readFSLoop(fsys, acc2, rootDir, subDir, n, entries, i + 1)
          ELSE IF case = "recurse"
          THEN LET sub == readFS(fsys, acc, rootDir, sp, n - 1)
               IN IF sub.err # "nil"
                  THEN sub
                  ELSE readFSLoop(fsys, sub.f, rootDir, subDir, n, entries, i + 1)
          ELSE readFSLoop(fsys, acc, rootDir, subDir, n, entries, i + 1)

\* filesnap.ReadFS(fsys, dir, n)
FilesReadFS(fsys, dir, n) == readFS(fsys, EmptyFiles, dir, <<>>, n)

\* dirsnap.Read(dir, n) / dirsnap.ReadFS(fsys, dir, n) is called with a
\* depth out of ns.
DirsReadIn(ns) ==
  /\ pkg = "dirsnap"
  /\ pc \in {"ready", "written"}
  /\ \E n \in ns :
       LET r == ReadFS(Fsys, <<>>, n)
       IN got' = [t |-> r.t, f |-> EmptyFiles, err |-> r.err, n |-> n]
  /\ pc' = "scanned"
  /\ UNCHANGED <<pkg, d, f, fs, denied, eofd, stack, todo, cur, err, calls,
                 fs0, fs1, last>>

\* filesnap.Read(dir, n) / filesnap.ReadFS(fsys, dir, n) is called with a
\* depth out of ns.
FilesReadIn(ns) ==
  /\ pkg = "filesnap"
  /\ pc \in {"ready", "written"}
  /\ \E n \in ns :
       LET r == FilesReadFS(Fsys, <<>>, n)
       IN got' = [t |-> Nil, f |-> r.f, err |-> r.err, n |-> n]
  /\ pc' = "scanned"
  /\ UNCHANGED <<pkg, d, f, fs, denied, eofd, stack, todo, cur, err, calls,
                 fs0, fs1, last>>

\* A scan of any depth.
DirsRead == DirsReadIn(Depths)

FilesRead == FilesReadIn(Depths)

\* A full scan, as after a Write: Read(dir, -1).
DirsReadAll == DirsReadIn({-1})

FilesReadAll == FilesReadIn({-1})

\* ---------------------------------------------------------- specifications

\* A write scenario: a snapshot, and a target directory that is missing, a
\* file, or a directory with some files and directories in it.
Init ==
  /\ pkg \in {"dirsnap", "filesnap"}
  /\ d \in IF pkg = "dirsnap" THEN DirsUpTo(MaxEntries) ELSE {EmptyDirs}
  /\ f \in IF pkg = "filesnap" THEN FilesUpTo(MaxEntries) ELSE {EmptyFiles}
  /\ fs \in FsUpTo(MaxPre, OldContents) \cup NoRootFs
  /\ denied = {}
  /\ eofd = {}
  /\ pc = "ready"
  /\ stack = <<>>
  /\ todo = {}
  /\ cur = <<>>
  /\ err = "nil"
  /\ calls = 0
  /\ fs0 = fs
  /\ fs1 = fs
  /\ last = NoLast
  /\ got = NoGot

Next ==
  \/ DirsWriteCall
  \/ DirsWriteLoop
  \/ DirsWriteReturn
  \/ FilesWriteCall
  \/ FilesWriteMkdirAll
  \/ FilesWriteFile
  \/ FilesWriteReturn
  \/ DirsReadAll
  \/ FilesReadAll

Spec == Init /\ [][Next]_vars

\* A scan scenario: a directory to scan, with at most one path that cannot
\* be read and at most one directory whose listing ends with io.EOF.
AtMostOne(S) == {{}} \cup {{x} : x \in S}

InitScan ==
  /\ pkg \in {"dirsnap", "filesnap"}
  /\ d = EmptyDirs
  /\ f = EmptyFiles
  /\ fs \in FsUpTo(MaxNodes, Contents) \cup NoRootFs
  /\ denied \in AtMostOne(DOMAIN fs)
  /\ eofd \in AtMostOne({p \in DOMAIN fs : fs[p].dir})
  /\ pc = "ready"
  /\ stack = <<>>
  /\ todo = {}
  /\ cur = <<>>
  /\ err = "nil"
  /\ calls = 0
  /\ fs0 = fs
  /\ fs1 = fs
  /\ last = NoLast
  /\ got = NoGot

NextScan ==
  \/ DirsRead
  \/ FilesRead

ScanSpec == InitScan /\ [][NextScan]_vars

\* ------------------------------------------------- vocabulary of the claims

\* The target directory exists and is empty.
EmptyRoot == [p \in {<<>>} |-> DirNode]

\* The relative paths of the entries of a Dirs value, all levels together.
RECURSIVE DirsPaths(_)
DirsPaths(t) ==
  IF t = Nil THEN {}
  ELSE UNION {{<<n>>} \cup {<<n>> \o q : q \in DirsPaths(t[n])} : n \in DOMAIN t}

\* The value a Dirs value holds at the relative path q of one of its entries.
RECURSIVE DirsAt(_, _)
DirsAt(t, q) == IF Len(q) = 1 THEN t[q[1]] ELSE DirsAt(t[q[1]], Tail(q))

\* q is a proper path prefix of k.
IsProperPrefix(q, k) == Len(q) < Len(k) /\ SubSeq(k, 1, Len(q)) = q

\* No key names a directory that another key needs as a directory.
PrefixFree(ks) == \A k1 \in ks, k2 \in ks : ~IsProperPrefix(k1, k2)

\* Every segment of the key is an entry name.
EntryNames(k) == \A i \in 1..Len(k) : k[i] \in Names

\* The keys of the Files snapshot are made of entry names alone.
CleanKeys == \A k \in DOMAIN f : EntryNames(k)

\* No two keys of the Files snapshot name the same path.
DistinctPaths ==
  \A k1 \in DOMAIN f, k2 \in DOMAIN f : k1 # k2 => Clean(k1) # Clean(k2)

\* Paths below the target directory (the directory itself left out).
Below(fsx) == DOMAIN fsx \ {<<>>}

\* The type a snapshot entry wants at its path.
WantOf(st) == IF st = Nil THEN "file" ELSE "dir"

\* The entry at relative path q lies within scan depth n: the entries of the
\* scanned directory are at level 0, and a negative n is no limit.
InDepth(q, n) == n < 0 \/ Len(q) - 1 <= n

\* The place of a name in the order of a listing.
Idx(n) == CHOOSE i \in 1..Len(NameOrder) : NameOrder[i] = n

\* In a depth-first scan that lists names in order, the entry q is recorded
\* no later than the entry p: q is p or an ancestor of p, or q branches off
\* the way to p at a name that comes before.
Before(q, p) ==
  \/ q \in Prefixes(p)
  \/ \E i \in 1..Len(q) :
       /\ i <= Len(p)
       /\ SubSeq(q, 1, i - 1) = SubSeq(p, 1, i - 1)
       /\ Idx(q[i]) < Idx(p[i])

\* A scan of depth n lists the directory p: p is within the depth and no
\* directory above it hides its entries.
Listed(p, n) ==
  /\ n < 0 \/ Len(p) <= n
  /\ \A q \in ProperPrefixes(p) : q \notin eofd /\ q \notin denied

TypeOK ==
  /\ pkg \in {"dirsnap", "filesnap"}
  /\ pc \in {"ready", "writing", "written", "scanned"}
  /\ WellFormed(fs)
  /\ calls \in 0..2

\* ----------------------------------------------------------------- claims

\* C1. Tree round trip: a Dirs snapshot written into an existing, empty
\* directory is written without error, and a full scan (n = -1) of that
\* directory returns no error and a snapshot equal to the one written.
TreeRoundTrip ==
  (pkg = "dirsnap" /\ fs0 = EmptyRoot) =>
    /\ (calls >= 1 => err = "nil")
    /\ (pc = "scanned" /\ calls >= 1 /\ got.n = -1) =>
         (got.err = "nil" /\ got.t = d)

\* A snapshot with a file and an empty directory two levels down was written
\* into an empty directory and scanned back in full.
TreeRoundTripWitness ==
  /\ pkg = "dirsnap" /\ fs0 = EmptyRoot
  /\ pc = "scanned" /\ calls = 1 /\ got.n = -1
  /\ \E n \in DOMAIN d :
       /\ d[n] # Nil
       /\ \E m1 \in DOMAIN d[n], m2 \in DOMAIN d[n] :
            d[n][m1] = Nil /\ d[n][m2] = EmptyDirs

\* C2 as stated. Flat round trip for every Files snapshot: written into an
\* existing, empty directory without error, and scanned back in full equal
\* to what was written.
FlatRoundTripAnyKeys ==
  (pkg = "filesnap" /\ fs0 = EmptyRoot) =>
    /\ (calls >= 1 => err = "nil")
    /\ (pc = "scanned" /\ calls >= 1 /\ got.n = -1) =>
         (got.err = "nil" /\ got.f = f)

\* C2 amended. Flat round trip for the Files snapshots whose keys are made
\* of entry names alone (no "." segment) and none of whose keys is a proper
\* path prefix of another key: written into an existing, empty directory
\* without error, and a full scan returns no error, exactly the keys written
\* and for each key the contents written.
FlatRoundTrip ==
  (/\ pkg = "filesnap" /\ fs0 = EmptyRoot
   /\ CleanKeys /\ PrefixFree(DOMAIN f)) =>
    /\ (calls >= 1 => err = "nil")
    /\ (pc = "scanned" /\ calls >= 1 /\ got.n = -1) =>
         /\ got.err = "nil"
         /\ DOMAIN got.f = DOMAIN f
         /\ \A k \in DOMAIN f : got.f[k] = f[k]

\* A snapshot with a nested key and a top-level key, one empty and one not,
\* was written into an empty directory and scanned back in full.
FlatRoundTripWitness ==
  /\ pkg = "filesnap" /\ fs0 = EmptyRoot
  /\ CleanKeys /\ PrefixFree(DOMAIN f)
  /\ pc = "scanned" /\ calls = 1 /\ got.n = -1
  /\ \E k1 \in DOMAIN f, k2 \in DOMAIN f :
       Len(k1) = 2 /\ Len(k2) = 1 /\ f[k1] = "n" /\ f[k2] = ""

\* C3 as stated. Write idempotence for every snapshot: when a Write returned
\* no error, the same Write called again right away returns no error and
\* leaves the filesystem as the first call left it.
WriteIdempotentAnyKeys ==
  calls = 2 => (err = "nil" /\ fs = fs1)

\* C3 amended. Write idempotence for the Dirs snapshots and for the Files
\* snapshots no two keys of which name the same path: when a Write returned
\* no error, the same Write called again right away returns no error and
\* leaves the filesystem as the first call left it.
WriteIdempotent ==
  (calls = 2 /\ DistinctPaths) => (err = "nil" /\ fs = fs1)

\* A second Write has returned, over a filesystem in which the first Write
\* found a file it overwrote and made a directory that was missing.
WriteIdempotentWitness ==
  /\ calls = 2 /\ pc = "written" /\ DistinctPaths
  /\ \E p \in DOMAIN fs0 : IsFile(fs0, p) /\ fs1[p] # fs0[p]
  /\ \E p \in DOMAIN fs1 : p \notin DOMAIN fs0 /\ fs1[p].dir

\* C4. Tree Write collision policy: when Dirs.Write handles an entry whose
\* path exists already, it goes on without error exactly when what exists is
\* of the entry's type (a file for a file marker, a directory for a nested
\* snapshot), and returns the error otherwise; so a Write of a single entry
\* over an existing path fails exactly when the types differ.
TreeCollisionPolicy ==
  pkg = "dirsnap" =>
    /\ (last.step = "create" /\ last.pre # "none") =>
         (last.err = "nil" <=> last.pre = last.want)
    /\ \A n \in DOMAIN d :
         (calls >= 1 /\ CountEntries(d) = 1 /\ <<n>> \in DOMAIN fs0) =>
           (err # "nil" <=> KindAt(fs0, <<n>>) # WantOf(d[n]))

\* Dirs.Write met a file where the snapshot has a directory, and returned
\* the error of the creation.
TreeCollisionWitness ==
  /\ pkg = "dirsnap" /\ pc = "written"
  /\ last.step = "create" /\ last.pre = "file" /\ last.want = "dir"
  /\ err = "EEXIST"

\* C5. Flat Write collision policy, for the key Files.Write handles: (1) over
\* an existing file there is no error and the file then holds exactly the
\* contents of the key; (2) directories that exist on the way are kept as
\* directories and are no error; (3) over an existing directory Write
\* returns an error and the directory stays one; (4) with a file in the place
\* of a directory on the way, Write returns an error and the file stays one.
FlatCollisionPolicy ==
  pkg = "filesnap" =>
    /\ (last.step # "none" /\ last.pre = "file") =>
         /\ last.err = "nil"
         /\ last.step = "writefile" => fs[last.p] = FileNode(last.data)
    /\ \A q \in DOMAIN fs0 : fs0[q].dir => IsDir(fs, q)
    /\ (last.step = "mkdirall" /\ last.anc = <<>>) => last.err = "nil"
    /\ (last.step # "none" /\ last.pre = "dir") =>
         /\ IsDir(fs, last.p)
         /\ last.step = "writefile" => last.err # "nil"
         /\ pc # "writing" => err # "nil"
    /\ (last.step # "none" /\ last.anc # <<>> /\ last.anc[1] # <<>>) =>
         /\ last.step = "mkdirall"
         /\ last.err # "nil" /\ err = last.err /\ pc # "writing"
         /\ IsFile(fs, last.anc[1])

\* Files.Write replaced the contents of a file that existed, below a
\* directory that existed.
FlatCollisionWitness ==
  /\ pkg = "filesnap"
  /\ last.step = "writefile" /\ last.pre = "file" /\ Len(last.p) = 2
  /\ fs0[last.p].data = "o" /\ fs[last.p].data = "n"

\* C6. Tree scan depth: when every listing succeeds, dirsnap.ReadFS returns
\* no error and records exactly the entries at levels 0..n (all of them for
\* n < 0), files as nil and directories as nested snapshots, a directory at
\* level n as an empty one whatever it holds.
TreeScanDepth ==
  (/\ pkg = "dirsnap" /\ pc = "scanned" /\ IsDir(fs, <<>>)
   /\ eofd = {} /\ \A p \in denied : ~IsDir(fs, p)) =>
    /\ got.err = "nil"
    /\ got.t # Nil
    /\ DirsPaths(got.t) = {q \in Below(fs) : InDepth(q, got.n)}
    /\ \A q \in DirsPaths(got.t) :
         /\ DirsAt(got.t, q) = Nil <=> IsFile(fs, q)
         /\ (IsDir(fs, q) /\ Len(q) - 1 = got.n) => DirsAt(got.t, q) = EmptyDirs

\* A scan of depth 1 met a directory at level 1 that holds an entry, and a
\* file at level 1.
TreeScanDepthWitness ==
  /\ pkg = "dirsnap" /\ pc = "scanned" /\ got.n = 1
  /\ eofd = {} /\ denied = {}
  /\ \E q \in DOMAIN fs : Len(q) = 3
  /\ \E q \in DOMAIN fs : Len(q) = 2 /\ IsFile(fs, q)

\* C7. Flat scan depth: when every listing and every file read succeeds,
\* filesnap.ReadFS returns no error and a map whose keys are exactly the
\* relative paths of the files at most n directories below the scanned one
\* (all files for n < 0), each with the contents of its file; no directory
\* is a key.
FlatScanDepth ==
  (/\ pkg = "filesnap" /\ pc = "scanned" /\ IsDir(fs, <<>>)
   /\ eofd = {} /\ denied = {}) =>
    /\ got.err = "nil"
    /\ DOMAIN got.f = {q \in Below(fs) : IsFile(fs, q) /\ InDepth(q, got.n)}
    /\ \A q \in DOMAIN got.f : got.f[q] = fs[q].data

\* A scan of depth 0 returned the file of the scanned directory and left out
\* a file one directory down.
FlatScanDepthWitness ==
  /\ pkg = "filesnap" /\ pc = "scanned" /\ got.n = 0
  /\ eofd = {} /\ denied = {}
  /\ \E q \in DOMAIN fs : Len(q) = 2 /\ IsFile(fs, q) /\ q \notin DOMAIN got.f
  /\ \E q \in DOMAIN got.f : got.f[q] = "n"

\* The scan of depth n has a listing that fails: that of the scanned
\* directory, or that of a directory the scan lists.
RootFails == ~IsDir(fs, <<>>) \/ <<>> \in denied

ScanFails(n) ==
  RootFails \/ \E p \in denied : IsDir(fs, p) /\ Listed(p, n)

\* C8. Tree scan error: dirsnap.ReadFS returns an error exactly when a
\* listing fails with an error other than io.EOF, and it is that error (a
\* missing scanned directory gives a not-exist error); the snapshot returned
\* with it holds the entries recorded before the failure, the directory
\* whose listing failed recorded under its name with what its scan returned
\* (nil), and nothing that comes after; a failing listing of the scanned
\* directory itself returns nil.
TreeScanError ==
  (pkg = "dirsnap" /\ pc = "scanned") =>
    /\ got.err # "nil" <=> ScanFails(got.n)
    /\ (<<>> \notin DOMAIN fs) => IsNotExist(got.err)
    /\ IsFile(fs, <<>>) => got.err = "ENOTDIR"
    /\ RootFails => got.t = Nil
    /\ (ScanFails(got.n) /\ ~RootFails) =>
         LET p == CHOOSE x \in denied : TRUE
         IN /\ got.err = "EACCES"
            /\ got.t # Nil
            /\ DirsPaths(got.t) =
                 {q \in Below(fs) : /\ InDepth(q, got.n)
                                    /\ \A x \in ProperPrefixes(q) : x \notin eofd
                                    /\ Before(q, p)}
            /\ \A q \in DirsPaths(got.t) :
                 DirsAt(got.t, q) = Nil <=> (IsFile(fs, q) \/ q = p)

\* A scan failed at the listing of a directory one level down, after it had
\* recorded an entry before that directory, with an entry after it left out.
TreeScanErrorWitness ==
  /\ pkg = "dirsnap" /\ pc = "scanned" /\ got.err = "EACCES"
  /\ \E p \in denied :
       /\ Len(p) = 2 /\ p[2] = "b"
       /\ got.t[p[1]] # Nil
       /\ DOMAIN got.t[p[1]] = {"a", "b"}
       /\ \E q \in DOMAIN fs : Len(q) = 1 /\ q[1] \notin DOMAIN got.t

\* A Write of the snapshot into the filesystem fs0 must fail: some entry
\* meets something of the other type, or two keys of a Files snapshot need
\* the same path as a file and as a directory, or the target directory is not
\* one that the entries can be created in.
MustFail ==
  IF pkg = "dirsnap"
  THEN \/ d # EmptyDirs /\ ~IsDir(fs0, <<>>)
       \/ \E q \in DirsPaths(d) :
            q \in DOMAIN fs0 /\ KindAt(fs0, q) # WantOf(DirsAt(d, q))
  ELSE \/ \E k \in DOMAIN f : IsDir(fs0, k)
       \/ \E k \in DOMAIN f : \E q \in ProperPrefixes(k) : IsFile(fs0, q)
       \/ ~PrefixFree(DOMAIN f)

\* The filesystem a Write of the snapshot into fs0 leaves when it succeeds.
Written ==
  IF pkg = "dirsnap"
  THEN [q \in DOMAIN fs0 \cup DirsPaths(d) |->
          IF q \in DirsPaths(d)
          THEN (IF DirsAt(d, q) = Nil THEN FileNode("") ELSE DirNode)
          ELSE fs0[q]]
  ELSE [q \in DOMAIN fs0 \cup UNION {Prefixes(k) : k \in DOMAIN f} |->
          IF q \in DOMAIN f THEN FileNode(f[q])
          ELSE IF q \in DOMAIN fs0 THEN fs0[q] ELSE DirNode]

\* C9. Write determinism: whether a Write returns an error, and the
\* filesystem it leaves when it returns none, depend on the snapshot (the
\* keys of a Files snapshot being made of entry names alone) and on the
\* filesystem it started from, not on the order in which the range loops
\* took the entries.
WriteDeterministic ==
  (pc = "written" /\ calls = 1 /\ CleanKeys) =>
    /\ err # "nil" <=> MustFail
    /\ err = "nil" => fs = Written

\* A Write returned an error after it had created something: in another
\* order it would have failed before.
WriteDeterministicWitness ==
  /\ pc = "written" /\ calls = 1 /\ CleanKeys /\ err = "EISDIR" /\ fs # fs0

\* The error of the step in last is one Write does not tolerate.
Untolerated(l) ==
  /\ l.raw # "nil"
  /\ ~(l.step = "create" /\ IsExist(l.raw) /\ l.pre = l.want)

\* C10. Write failure: the first operation whose error is not tolerated ends
\* the whole call with that error and without a change of the filesystem;
\* nothing that exists is removed or changes its type during a Write; and
\* once Write has returned an error the filesystem stays as it is.
WriteAbortsNoRollback ==
  [][/\ (pc = "writing" /\ last' # last /\ Untolerated(last')) =>
         /\ pc' = "written" /\ err' = last'.raw
         /\ fs' = fs
         /\ stack' = <<>> /\ todo' = {} /\ cur' = <<>>
     /\ (pc = "writing" /\ pc' = "written" /\ err' # "nil") =>
         (fs' = fs /\ Untolerated(last'))
     /\ \A p \in DOMAIN fs : p \in DOMAIN fs' /\ fs'[p].dir = fs[p].dir
     /\ (pc # "writing" /\ err # "nil") => fs' = fs]_vars

\* A Write returned an error from a nested Write, and a directory and a file
\* it had created before are still there.
WriteAbortsWitness ==
  /\ pc = "written" /\ err # "nil" /\ Len(last.p) >= 2
  /\ \E p \in DOMAIN fs, q \in DOMAIN fs :
       /\ p \notin DOMAIN fs0 /\ q \notin DOMAIN fs0
       /\ fs[p].dir /\ ~fs[q].dir

====
